---- MODULE Spec2Model ----
(***************************************************************************)
(* Model of the purchase-with-inventory-lock transaction of the artisan    *)
(* marketplace backend (main.py, purchase_with_lock) and of the parts of   *)
(* the store it relies on: the product rows with their row locks, the      *)
(* orders, transactions (payment splits) and audit_logs tables, the        *)
(* id sequences and the connection pool.                                   *)
(*                                                                         *)
(* Money is counted in hundredths of a currency unit.  Every store round   *)
(* trip of a call is one step, so calls interleave between statements.     *)
(***************************************************************************)
EXTENDS Integers, Sequences, FiniteSets, TLC

\* ---------------------------------------------------------------- bounds
NumCallers == 2      \* purchase requests of one run, each on its own worker
MaxStock == 2        \* largest initial stock of a product
MaxQty == 2          \* largest requested quantity
MaxFaults == 1       \* unexpected exceptions injected in one run
MaxPrice == 60       \* largest unit price, in hundredths, of the pricing runs
MaxAdmin == 1        \* audited product creations and status updates

\* ------------------------------------------------------- program constants
PoolMax == 10        \* SimpleConnectionPool(1, 10, ...)
CommissionPercent == 5   \* commission_rate = 0.05
CreateTransactionPercent == 5   \* create_transaction: commission_rate = 0.05

Callers == 1..NumCallers
Products == {1, 2}                \* product rows that exist
MissingId == Cardinality(Products) + 1   \* an id no product row has
\* what a request may ask for: every quantity of the first row, one unit of
\* each other row, one unit of a row that does not exist, and the quantities
\* zero and minus one
Requests ==
    {<<1, q>> : q \in 1..MaxQty}
        \cup {<<p, 1>> : p \in Products}
        \cup {<<MissingId, 1>>, <<1, 0>>, <<1, -1>>}
InitialPrice == <<20, 40>>        \* unit price of each row, in hundredths

NoProduct == 0

\* the values OrderStatusUpdate.validate_status accepts
ValidStatuses == {"pending", "processing", "shipped", "delivered", "cancelled"}

\* the status of an order row the INSERT of purchase_with_lock leaves to
\* the column: the first stage of pending -> processing -> shipped -> delivered
DefaultStatus == "pending"

\* an audit row whose details carry no new_status
NoStatus == "none"

VARIABLES
    stock,        \* committed products.stock_quantity, per product row
    price,        \* products.price, per product row
    orders,       \* committed rows of orders
    transactions, \* committed rows of transactions (payment splits)
    audit_logs,   \* committed rows of audit_logs, in commit order
    nextOrderId,  \* the orders.order_id sequence
    nextTxnId,    \* the transactions.transaction_id sequence
    pool,         \* connections checked out of db.connection_pool
    pc,           \* per request: the statement purchase_with_lock is at
    local,        \* per request: the local variables of purchase_with_lock
    tx,           \* per request: the open store transaction of its connection
    calls,        \* per request: what it asked for and what it was answered
    faults,       \* unexpected exceptions injected so far
    initStock     \* the stock each product started with (never changes)

vars == <<stock, price, orders, transactions, audit_logs, nextOrderId,
          nextTxnId, pool, pc, local, tx, calls, faults, initStock>>

\* ------------------------------------------------------------- helpers

\* the local variables of purchase_with_lock before any is assigned
NoLocals ==
    [product_id |-> NoProduct, quantity |-> 0,
     stock_quantity |-> 0, price |-> 0, total_price |-> 0, new_stock |-> 0,
     order_id |-> 0, transaction_id |-> 0,
     commission_fee |-> 0, artisan_payout |-> 0]

\* a connection with no open transaction: no lock, no uncommitted write
NoTx ==
    [lock |-> NoProduct, stockWrite |-> <<>>, orders |-> {},
     transactions |-> {}, audit_logs |-> <<>>]

\* workers whose open transaction holds the row lock of product p
Holders(p) == {c \in Callers : tx[c].lock = p}

\* a plain SELECT in place of FOR UPDATE NOWAIT: no row lock is ever refused
NoRowLock(p, c) == TRUE

\* SELECT ... FOR UPDATE NOWAIT: the row lock is granted at once exactly when
\* no other open transaction holds it; otherwise the statement raises
LockAvailable(p, c) == \A d \in Callers \ {c} : tx[d].lock # p

\* the stock check left out
AlwaysSufficient(s, q) == TRUE

\* the guard of the write phase: NOT (stock_quantity < purchase_data.quantity)
SufficientStock(s, q) == ~(s < q)

\* a validator that refuses negative quantities only
NotNegative(q) == ~(q < 0)

\* PurchaseRequest.validate_quantity: raises ValueError when v <= 0
ValidQuantity(q) == ~(q <= 0)

\* a total that leaves the quantity out
UnitPriceOnly(pr, q) == pr

\* total_price = price * purchase_data.quantity
TotalPrice(pr, q) == pr * q

\* new_stock = stock_quantity - purchase_data.quantity
NewStock(s, q) == s - q

\* round(n / d): the integers nearest to n / d.  Off a tie there is one.  On
\* a tie the result depends on how the product was represented before it was
\* rounded (a binary float falls on either side of the decimal tie, an exact
\* decimal goes to the even neighbour), so both neighbours are possible
Round(n, d) ==
    LET f == n \div d
        r == n % d
    IN  IF 2 * r < d THEN {f}
        ELSE IF 2 * r > d THEN {f + 1}
        ELSE {f, f + 1}

\* a commission taken at twice the rate
DoubleCommission(total) == Round(total * 2 * CommissionPercent, 100)

\* commission_fee = round(total_price * commission_rate, 2), in hundredths
CommissionFee(total) == Round(total * CommissionPercent, 100)

\* database.create_transaction:
\* commission_fee = round(amount * commission_rate, 2)
CreateTransactionFee(amount) == Round(amount * CreateTransactionPercent, 100)

\* database.create_transaction:
\* artisan_payout = round(amount - commission_fee, 2)
CreateTransactionPayout(amount, fee) == amount - fee

\* a payout rounded down from its own share of the total instead of being
\* what is left after the commission
PayoutOfShare(total, fee) == (total * (100 - CommissionPercent)) \div 100

\* artisan_payout = round(total_price - commission_fee, 2): both operands
\* are whole hundredths, so is their difference
ArtisanPayout(total, fee) == total - fee

\* the record of a request as it arrives
NewCall(p, q) ==
    [product_id |-> p, quantity |-> q,
     \* the answer: HTTP status (0 while in flight), detail, available
     status |-> 0, detail |-> "in flight", available |-> 0,
     \* whether its connection.commit() took effect, and the committed
     \* stock of its product right before and right after that commit
     committed |-> FALSE, before |-> 0, after |-> 0,
     \* the unexpected exception it met, if any
     fault |-> "none",
     \* whether this is the caller's second try after a 409, and if so
     \* whether every other call had been answered when it began
     retried |-> "no",
     \* for a use of get_cursor: its commit argument
     commit |-> FALSE]

\* a commit that is never issued: the connection goes back to the pool and
\* the open transaction is lost
CommitForgotten(c) ==
    /\ tx' = [tx EXCEPT ![c] = NoTx]
    /\ UNCHANGED <<stock, orders, transactions, audit_logs>>

\* connection.commit(): the uncommitted writes of the transaction reach the
\* tables in one step and its lock is released
CommitTx(c) ==
    /\ stock' = IF tx[c].stockWrite = <<>> THEN stock
                ELSE [stock EXCEPT ![tx[c].lock] = tx[c].stockWrite[1]]
    /\ orders' = orders \cup tx[c].orders
    /\ transactions' = transactions \cup tx[c].transactions
    /\ audit_logs' = audit_logs \o tx[c].audit_logs
    /\ tx' = [tx EXCEPT ![c] = NoTx]

\* an exception handler that commits where it should roll back
CommitInstead(c) == CommitTx(c)

\* an exit that forgets connection.rollback(): the transaction stays open on
\* the connection, with its lock
RollbackSkipped(c) ==
    UNCHANGED <<tx, stock, orders, transactions, audit_logs>>

\* connection.rollback(): the open transaction is dropped, with its lock and
\* its uncommitted writes; no table changes
RollbackTx(c) ==
    /\ tx' = [tx EXCEPT ![c] = NoTx]
    /\ UNCHANGED <<stock, orders, transactions, audit_logs>>

\* the finally block and the response: cursor closed, connection put back,
\* the caller gets `status`
Finish(c, status, detail, avail, fault) ==
    /\ pc' = [pc EXCEPT ![c] = "done"]
    /\ pool' = pool - 1
    /\ calls' = [calls EXCEPT ![c] =
                    [@ EXCEPT !.status = status, !.detail = detail,
                              !.available = avail,
                              !.fault = IF fault = "none" THEN @ ELSE fault]]

\* FOR UPDATE without NOWAIT: the statement waits until the holder ends
LockWaits(c) ==
    /\ LockAvailable(local[c].product_id, c)
    /\ RollbackTx(c)
    /\ Finish(c, 409, "locked", 0, "none")

\* a lock handler that records the conflict in audit_logs on its own
\* autocommit statement before it answers 409
LockRefusedLogged(c) ==
    /\ tx' = [tx EXCEPT ![c] = NoTx]
    /\ audit_logs' = Append(audit_logs,
            [user_id |-> c, action_type |-> "lock_conflict",
             entity_type |-> "product", entity_id |-> local[c].product_id,
             product_name |-> NoProduct, quantity |-> local[c].quantity,
             total_price |-> 0, old_stock |-> 0, new_stock |-> 0,
             new_status |-> NoStatus])
    /\ UNCHANGED <<stock, orders, transactions>>
    /\ Finish(c, 409, "locked", 0, "none")

\* except Exception as lock_error: rollback, then 409 through the finally block
LockRefused(c) ==
    /\ RollbackTx(c)
    /\ Finish(c, 409, "locked", 0, "none")

\* the statements between a granted lock and the return of the commit
InTransactionAt(at) == at \in {"check", "order", "split", "audit", "commit"}

\* ---------------------------------------------------------------- Init
Init ==
    /\ \E s \in 0..MaxStock : stock = [p \in Products |-> s]
    /\ initStock = stock
    /\ price = [p \in Products |-> InitialPrice[p]]
    /\ orders = {}
    /\ transactions = {}
    /\ audit_logs = <<>>
    /\ nextOrderId = 1
    /\ nextTxnId = 1
    /\ pool = 0
    /\ pc = [c \in Callers |-> "new"]
    /\ local = [c \in Callers |-> NoLocals]
    /\ tx = [c \in Callers |-> NoTx]
    /\ calls = [c \in Callers |-> NewCall(NoProduct, 0)]
    /\ faults = 0

\* --------------------------------------------------------------- actions

\* A purchase request arrives; requests are numbered in order of arrival.
\* PurchaseRequest validation
\* rejects quantity <= 0 before purchase_with_lock runs; otherwise the call
\* takes a connection from the pool, opens a cursor and leaves autocommit.
Request(c, p, q) ==
    /\ pc[c] = "new"
    /\ \A d \in Callers : d < c => pc[d] # "new"
    /\ IF ~ValidQuantity(q)
       THEN /\ calls' = [calls EXCEPT ![c] = [NewCall(p, q) EXCEPT
                                  !.status = 422, !.detail = "invalid"]]
            /\ pc' = [pc EXCEPT ![c] = "done"]
            /\ UNCHANGED <<local, pool>>
       ELSE IF pool >= PoolMax
       THEN /\ calls' = [calls EXCEPT ![c] = [NewCall(p, q) EXCEPT
                                  !.status = 500, !.detail = "failed",
                                  !.fault = "pool"]]
            /\ pc' = [pc EXCEPT ![c] = "done"]
            /\ UNCHANGED <<local, pool>>
       ELSE /\ calls' = [calls EXCEPT ![c] = NewCall(p, q)]
            /\ pool' = pool + 1
            /\ pc' = [pc EXCEPT ![c] = "lock"]
            /\ local' = [local EXCEPT ![c] =
                            [NoLocals EXCEPT !.product_id = p,
                                             !.quantity = q]]
    /\ UNCHANGED <<stock, price, orders, transactions, audit_logs,
                   nextOrderId, nextTxnId, tx, faults, initStock>>

\* cursor.execute(lock_query); cursor.fetchone(), and the two early exits
\* that follow it at once: lock refused (409) and no such row (404)
LockProduct(c) ==
    /\ pc[c] = "lock"
    /\ LET p == local[c].product_id
       IN  IF ~LockAvailable(p, c)
           THEN /\ LockRefused(c)
                /\ UNCHANGED local
           ELSE IF p \notin DOMAIN stock
           THEN /\ RollbackTx(c)
                /\ Finish(c, 404, "Product not found", 0, "none")
                /\ UNCHANGED local
           ELSE /\ tx' = [tx EXCEPT ![c].lock = p]
                /\ local' = [local EXCEPT ![c].stock_quantity = stock[p],
                                          ![c].price = price[p]]
                /\ pc' = [pc EXCEPT ![c] = "check"]
                /\ UNCHANGED <<stock, orders, transactions, audit_logs,
                               pool, calls>>
    /\ UNCHANGED <<price, nextOrderId, nextTxnId, faults, initStock>>

\* the lock statement raises for a reason other than a held lock: the same
\* handler runs, so the caller is told 409
LockError(c) ==
    /\ pc[c] = "lock"
    /\ faults < MaxFaults
    /\ faults' = faults + 1
    /\ RollbackTx(c)
    /\ Finish(c, 409, "locked", 0, "store")
    /\ UNCHANGED <<local, price, nextOrderId, nextTxnId, initStock>>

\* the stock check; then either rollback and 400, or the stock UPDATE
CheckStock(c) ==
    /\ pc[c] = "check"
    /\ LET s == local[c].stock_quantity
           q == local[c].quantity
       IN  IF ~SufficientStock(s, q)
           THEN /\ RollbackTx(c)
                /\ IF s = 0
                   THEN Finish(c, 400, "SOLD OUT", 0, "none")
                   ELSE Finish(c, 400, "Insufficient stock", s, "none")
                /\ UNCHANGED local
           ELSE /\ local' = [local EXCEPT
                                ![c].total_price = TotalPrice(local[c].price, q),
                                ![c].new_stock = NewStock(s, q)]
                /\ tx' = [tx EXCEPT ![c].stockWrite = <<NewStock(s, q)>>]
                /\ pc' = [pc EXCEPT ![c] = "order"]
                /\ UNCHANGED <<stock, orders, transactions, audit_logs,
                               pool, calls>>
    /\ UNCHANGED <<price, nextOrderId, nextTxnId, faults, initStock>>

\* INSERT INTO orders ... RETURNING order_id, created_at
InsertOrder(c) ==
    /\ pc[c] = "order"
    /\ local' = [local EXCEPT ![c].order_id = nextOrderId]
    /\ nextOrderId' = nextOrderId + 1
    /\ tx' = [tx EXCEPT ![c].orders = @ \cup
                {[order_id |-> nextOrderId, buyer_id |-> c,
                  product_id |-> local[c].product_id,
                  quantity |-> local[c].quantity,
                  total_price |-> local[c].total_price,
                  status |-> DefaultStatus]}]
    /\ pc' = [pc EXCEPT ![c] = "split"]
    /\ UNCHANGED <<stock, price, orders, transactions, audit_logs, nextTxnId,
                   pool, calls, faults, initStock>>

\* the commission split and INSERT INTO transactions ... RETURNING transaction_id
InsertTransaction(c) ==
    /\ pc[c] = "split"
    /\ \E fee \in CommissionFee(local[c].total_price) :
         LET pay == ArtisanPayout(local[c].total_price, fee)
         IN
           /\ local' = [local EXCEPT ![c].transaction_id = nextTxnId,
                                     ![c].commission_fee = fee,
                                     ![c].artisan_payout = pay]
           /\ tx' = [tx EXCEPT ![c].transactions = @ \cup
                       {[transaction_id |-> nextTxnId,
                         order_id |-> local[c].order_id,
                         artisan_id |-> 0, buyer_id |-> c,
                         product_id |-> local[c].product_id,
                         amount |-> local[c].total_price,
                         commission_fee |-> fee, artisan_payout |-> pay]}]
    /\ nextTxnId' = nextTxnId + 1
    /\ pc' = [pc EXCEPT ![c] = "audit"]
    /\ UNCHANGED <<stock, price, orders, transactions, audit_logs, nextOrderId,
                   pool, calls, faults, initStock>>

\* INSERT INTO audit_logs
InsertAudit(c) ==
    /\ pc[c] = "audit"
    /\ tx' = [tx EXCEPT ![c].audit_logs = Append(@,
                [user_id |-> c, action_type |-> "purchase",
                 entity_type |-> "order", entity_id |-> local[c].order_id,
                 product_name |-> local[c].product_id,
                 quantity |-> local[c].quantity,
                 total_price |-> local[c].total_price,
                 old_stock |-> local[c].stock_quantity,
                 new_stock |-> local[c].new_stock,
                 new_status |-> NoStatus])]
    /\ pc' = [pc EXCEPT ![c] = "commit"]
    /\ UNCHANGED <<stock, price, orders, transactions, audit_logs, nextOrderId,
                   nextTxnId, pool, local, calls, faults, initStock>>

\* connection.commit()
Commit(c) ==
    /\ pc[c] = "commit"
    /\ CommitTx(c)
    /\ calls' = [calls EXCEPT ![c].committed = TRUE,
                              ![c].before = stock[local[c].product_id],
                              ![c].after = stock'[local[c].product_id]]
    /\ pc' = [pc EXCEPT ![c] = "respond"]
    /\ UNCHANGED <<price, nextOrderId, nextTxnId, pool, local, faults,
                   initStock>>

\* logger.info(...) and the response dictionary, then the finally block
Respond(c) ==
    /\ pc[c] = "respond"
    /\ pc' = [pc EXCEPT ![c] = "done"]
    /\ pool' = pool - 1
    /\ calls' = [calls EXCEPT ![c].status = 200,
                              ![c].detail = "Purchase successful"]
    /\ UNCHANGED <<local, stock, price, orders, transactions, audit_logs, nextOrderId,
                   nextTxnId, tx, faults, initStock>>

\* a statement of the write phase, or the commit, raises: except Exception
\* rolls back and answers 500
StoreError(c) ==
    /\ \/ pc[c] \in {"order", "split", "audit", "commit"}
       \/ /\ pc[c] = "check"
          /\ SufficientStock(local[c].stock_quantity, local[c].quantity)
    /\ faults < MaxFaults
    /\ faults' = faults + 1
    /\ RollbackTx(c)
    /\ Finish(c, 500, "failed", 0, "store")
    /\ UNCHANGED <<local, price, nextOrderId, nextTxnId, initStock>>

\* a statement after connection.commit() raises (the log line reads
\* current_user['username'], the response calls created_at.isoformat()):
\* the same except Exception runs, rolls back nothing and answers 500
RespondError(c) ==
    /\ pc[c] = "respond"
    /\ faults < MaxFaults
    /\ faults' = faults + 1
    /\ RollbackTx(c)
    /\ Finish(c, 500, "failed", 0, "post-commit")
    /\ UNCHANGED <<local, price, nextOrderId, nextTxnId, initStock>>

\* the connection breaks under a statement of the write phase (here the last
\* one, the audit insert, with every write of the call pending): the
\* statement raises, the rollback of the handler raises on the dead
\* connection, and in the finally block cursor.close() or
\* connection.autocommit = True raises before putconn is reached.  The store
\* aborts the open transaction, the caller gets a 500 and the connection
\* stays checked out of the pool.
ConnectionLost(c) ==
    /\ pc[c] = "audit"
    /\ faults < MaxFaults
    /\ faults' = faults + 1
    /\ RollbackTx(c)
    /\ pc' = [pc EXCEPT ![c] = "done"]
    /\ calls' = [calls EXCEPT ![c].status = 500, ![c].detail = "unhandled",
                              ![c].fault = "connection"]
    /\ UNCHANGED <<pool, local, price, nextOrderId, nextTxnId, initStock>>

Next ==
    \/ \E c \in Callers, r \in Requests : Request(c, r[1], r[2])
    \/ \E c \in Callers : LockProduct(c)
    \/ \E c \in Callers : LockError(c)
    \/ \E c \in Callers : CheckStock(c)
    \/ \E c \in Callers : InsertOrder(c)
    \/ \E c \in Callers : InsertTransaction(c)
    \/ \E c \in Callers : InsertAudit(c)
    \/ \E c \in Callers : Commit(c)
    \/ \E c \in Callers : Respond(c)
    \/ \E c \in Callers : StoreError(c)
    \/ \E c \in Callers : RespondError(c)
    \/ \E c \in Callers : ConnectionLost(c)

Spec == Init /\ [][Next]_vars

\* One buyer alone, no exception, on products of any unit price: the runs on
\* which the amounts of a purchase are examined.
InitPricing ==
    /\ stock = [p \in Products |-> MaxStock]
    /\ initStock = stock
    /\ \E pr \in 1..MaxPrice : price = [p \in Products |-> pr]
    /\ orders = {}
    /\ transactions = {}
    /\ audit_logs = <<>>
    /\ nextOrderId = 1
    /\ nextTxnId = 1
    /\ pool = 0
    /\ pc = [c \in Callers |-> "new"]
    /\ local = [c \in Callers |-> NoLocals]
    /\ tx = [c \in Callers |-> NoTx]
    /\ calls = [c \in Callers |-> NewCall(NoProduct, 0)]
    /\ faults = 0

NextPricing ==
    \/ \E r \in Requests : Request(1, r[1], r[2])
    \/ LockProduct(1)
    \/ CheckStock(1)
    \/ InsertOrder(1)
    \/ InsertTransaction(1)
    \/ InsertAudit(1)
    \/ Commit(1)
    \/ Respond(1)

SpecPricing == InitPricing /\ [][NextPricing]_vars

\* Calls that do not overlap: a request arrives only when no call is in
\* flight (test_sequential_purchases sends each request after the answer to
\* the one before).
NextSequential ==
    \/ \E c \in Callers, r \in Requests :
           /\ \A d \in Callers : pc[d] \in {"new", "done"}
           /\ Request(c, r[1], r[2])
    \/ \E c \in Callers : LockProduct(c)
    \/ \E c \in Callers : LockError(c)
    \/ \E c \in Callers : CheckStock(c)
    \/ \E c \in Callers : InsertOrder(c)
    \/ \E c \in Callers : InsertTransaction(c)
    \/ \E c \in Callers : InsertAudit(c)
    \/ \E c \in Callers : Commit(c)
    \/ \E c \in Callers : Respond(c)
    \/ \E c \in Callers : StoreError(c)
    \/ \E c \in Callers : RespondError(c)
    \/ \E c \in Callers : ConnectionLost(c)

SpecSequential == Init /\ [][NextSequential]_vars

\* A loaded server: when the first request arrives, PoolMax - 1 purchases of
\* products other than those of Products are in flight, each holding a
\* connection of the pool for the length of the run.
InitBusy ==
    /\ \E s \in 0..MaxStock : stock = [p \in Products |-> s]
    /\ initStock = stock
    /\ price = [p \in Products |-> InitialPrice[p]]
    /\ orders = {}
    /\ transactions = {}
    /\ audit_logs = <<>>
    /\ nextOrderId = 1
    /\ nextTxnId = 1
    /\ pool = PoolMax - 1
    /\ pc = [c \in Callers |-> "new"]
    /\ local = [c \in Callers |-> NoLocals]
    /\ tx = [c \in Callers |-> NoTx]
    /\ calls = [c \in Callers |-> NewCall(NoProduct, 0)]
    /\ faults = 0

SpecBusy == InitBusy /\ [][Next]_vars

\* database.update_product_stock(db, product_id, new_quantity), through
\* execute_update and get_cursor(commit = True): a connection is taken, the
\* UPDATE waits for the row lock if a purchase holds it, the new value is
\* committed and the connection is put back.  main.py imports the function;
\* none of its routes calls it.
UpdateProductStock(p, n) ==
    /\ p \in Products
    /\ pool < PoolMax
    /\ Holders(p) = {}
    /\ stock' = [stock EXCEPT ![p] = n]
    /\ UNCHANGED <<price, orders, transactions, audit_logs, nextOrderId,
                   nextTxnId, pool, pc, local, tx, calls, faults, initStock>>

\* The purchase route together with the stock writer of the database module.
NextDatabase ==
    \/ Next
    \/ \E p \in Products, n \in 0..MaxStock : UpdateProductStock(p, n)

SpecDatabase == Init /\ [][NextDatabase]_vars

\* the call is interrupted inside its transaction by something that is not
\* an Exception (KeyboardInterrupt, SystemExit, a cancellation): neither
\* except clause matches, so no rollback is issued; the finally block closes
\* the cursor and sets connection.autocommit = True, which the driver
\* refuses inside a transaction, so putconn is not reached.  The connection
\* stays checked out with its transaction open: the writes stay invisible,
\* the row lock stays held, and the caller gets no outcome of its own (the
\* server answers 500).
Interrupt(c) ==
    /\ InTransactionAt(pc[c])
    /\ faults < MaxFaults
    /\ faults' = faults + 1
    /\ pc' = [pc EXCEPT ![c] = "done"]
    /\ calls' = [calls EXCEPT ![c].status = 500, ![c].detail = "unhandled",
                              ![c].fault = "interrupt"]
    /\ UNCHANGED <<stock, price, orders, transactions, audit_logs, nextOrderId,
                   nextTxnId, pool, local, tx, initStock>>

\* The purchase route with interruptions that are not ordinary exceptions.
NextInterrupt ==
    \/ Next
    \/ \E c \in Callers : Interrupt(c)

SpecInterrupt == Init /\ [][NextInterrupt]_vars

\* the caller of a call answered 409 sends the same request once more
\* (test_concurrency.py reports 409 as "try again")
Retry(c) ==
    /\ pc[c] = "done"
    /\ calls[c].status = 409
    /\ calls[c].retried = "no"
    /\ pool < PoolMax
    /\ pool' = pool + 1
    /\ pc' = [pc EXCEPT ![c] = "lock"]
    /\ calls' = [calls EXCEPT ![c] =
                    [NewCall(calls[c].product_id, calls[c].quantity) EXCEPT
                        !.retried = IF \A d \in Callers \ {c} : pc[d] = "done"
                                    THEN "alone" ELSE "overlapping"]]
    /\ local' = [local EXCEPT ![c] =
                    [NoLocals EXCEPT !.product_id = calls[c].product_id,
                                     !.quantity = calls[c].quantity]]
    /\ UNCHANGED <<stock, price, orders, transactions, audit_logs,
                   nextOrderId, nextTxnId, tx, faults, initStock>>

\* the next statement of the call, when it raises nothing
Step(c) ==
    \/ LockProduct(c)
    \/ CheckStock(c)
    \/ InsertOrder(c)
    \/ InsertTransaction(c)
    \/ InsertAudit(c)
    \/ Commit(c)
    \/ Respond(c)

\* Every product has one unit left.
InitFair ==
    /\ stock = [p \in Products |-> 1]
    /\ initStock = stock
    /\ price = [p \in Products |-> InitialPrice[p]]
    /\ orders = {}
    /\ transactions = {}
    /\ audit_logs = <<>>
    /\ nextOrderId = 1
    /\ nextTxnId = 1
    /\ pool = 0
    /\ pc = [c \in Callers |-> "new"]
    /\ local = [c \in Callers |-> NoLocals]
    /\ tx = [c \in Callers |-> NoTx]
    /\ calls = [c \in Callers |-> NewCall(NoProduct, 0)]
    /\ faults = 0

\* Single-unit purchases of any row, existing or not, with every kind of
\* exception; every store round trip returns and every worker keeps running,
\* so a call that has a next statement eventually executes it (or fails on
\* it).
NextFair ==
    \/ \E c \in Callers, p \in Products \cup {MissingId} : Request(c, p, 1)
    \/ \E c \in Callers : Step(c)
    \/ \E c \in Callers : LockError(c)
    \/ \E c \in Callers : StoreError(c)
    \/ \E c \in Callers : RespondError(c)
    \/ \E c \in Callers : ConnectionLost(c)

SpecFair ==
    InitFair /\ [][NextFair]_vars /\ \A c \in Callers : WF_vars(Step(c))

\* Single-unit purchases of products with one unit left, where a caller
\* answered 409 may try once more.
NextRetry ==
    \/ NextFair
    \/ \E c \in Callers : Retry(c)

SpecRetry == InitFair /\ [][NextRetry]_vars

\* a row of audit_logs written by create_audit_log for the artisan (user 0)
AuditRow(action, entity, id, name, status) ==
    [user_id |-> 0, action_type |-> action, entity_type |-> entity,
     entity_id |-> id, product_name |-> name, quantity |-> 0,
     total_price |-> 0, old_stock |-> 0, new_stock |-> 0,
     new_status |-> status]

\* rows of audit_logs written by create_new_product and update_status
AdminRows ==
    {i \in 1..Len(audit_logs) :
        audit_logs[i].action_type \in {"product_created", "status_update"}}

\* create_new_product: create_product inserts the row and commits it on a
\* connection of its own; create_audit_log then inserts the audit row and
\* commits it on another.  When the second statement raises, the handler
\* answers 500 and the product row stays.
CreateNewProduct(n, audited) ==
    /\ pool < PoolMax
    /\ LET id == Cardinality(DOMAIN stock) + 1
       IN  /\ stock' = [p \in DOMAIN stock \cup {id} |->
                            IF p = id THEN n ELSE stock[p]]
           /\ price' = [p \in DOMAIN price \cup {id} |->
                            IF p = id THEN InitialPrice[1] ELSE price[p]]
           /\ IF audited
              THEN /\ Cardinality(AdminRows) < MaxAdmin
                   /\ audit_logs' = Append(audit_logs,
                         AuditRow("product_created", "product", id, id,
                                  NoStatus))
                   /\ UNCHANGED faults
              ELSE /\ faults < MaxFaults
                   /\ faults' = faults + 1
                   /\ UNCHANGED audit_logs
    /\ UNCHANGED <<orders, transactions, nextOrderId, nextTxnId, pool, pc,
                   local, tx, calls, initStock>>

\* update_status: update_order_status commits the UPDATE on a connection of
\* its own; no row matched is answered 404 before any audit; otherwise
\* create_audit_log commits the audit row on another connection, and when
\* that raises the handler answers 500 and the new status stays.
UpdateStatus(order_id, new_status, audited) ==
    /\ pool < PoolMax
    /\ IF \A o \in orders : o.order_id # order_id
       THEN UNCHANGED <<orders, audit_logs, faults>>
       ELSE /\ orders' = {IF o.order_id = order_id
                          THEN [o EXCEPT !.status = new_status]
                          ELSE o : o \in orders}
            /\ IF audited
               THEN /\ Cardinality(AdminRows) < MaxAdmin
                    /\ audit_logs' = Append(audit_logs,
                          AuditRow("status_update", "order", order_id,
                                   NoProduct, new_status))
                    /\ UNCHANGED faults
               ELSE /\ faults < MaxFaults
                    /\ faults' = faults + 1
                    /\ UNCHANGED audit_logs
    /\ UNCHANGED <<stock, price, transactions, nextOrderId, nextTxnId, pool,
                   pc, local, tx, calls, initStock>>

\* The three audited routes together: purchases of one unit, product
\* creation and order status updates.
NextAudit ==
    \/ NextFair
    \/ \E n \in 0..1, audited \in BOOLEAN : CreateNewProduct(n, audited)
    \/ \E id \in 1..nextOrderId, s \in ValidStatuses, audited \in BOOLEAN :
           UpdateStatus(id, s, audited)

SpecAudit == InitFair /\ [][NextAudit]_vars

\* the statements of a use of get_cursor between getconn and putconn
InCursorAt(at) == at \in {"cursor_body", "cursor_yielded", "cursor_exit"}

\* with self.get_cursor(commit) as cursor: get_connection takes a connection
\* (getconn raises when the pool has none left, and then there is nothing to
\* put back) and connection.cursor() opens the cursor.  The body is the one
\* of execute_update for update_product_stock(p, n), or with commit = False
\* the one of execute_query.
GetCursor(c, commit, p, n) ==
    /\ pc[c] = "new"
    /\ \A d \in Callers : d < c => pc[d] # "new"
    /\ IF pool >= PoolMax
       THEN /\ calls' = [calls EXCEPT ![c] = [NewCall(p, n) EXCEPT
                                  !.commit = commit, !.detail = "raised",
                                  !.fault = "pool"]]
            /\ pc' = [pc EXCEPT ![c] = "done"]
            /\ UNCHANGED <<local, pool>>
       ELSE /\ calls' = [calls EXCEPT ![c] =
                            [NewCall(p, n) EXCEPT !.commit = commit]]
            /\ pool' = pool + 1
            /\ pc' = [pc EXCEPT ![c] = "cursor_body"]
            /\ local' = [local EXCEPT ![c] =
                            [NoLocals EXCEPT !.product_id = p,
                                             !.new_stock = n]]
    /\ UNCHANGED <<stock, price, orders, transactions, audit_logs,
                   nextOrderId, nextTxnId, tx, faults, initStock>>

\* cursor.execute(query, params) in the body: with commit the UPDATE of
\* products.stock_quantity, which waits for the row lock and leaves an
\* uncommitted write; without commit a SELECT, which writes nothing
CursorExecute(c) ==
    /\ pc[c] = "cursor_body"
    /\ LET p == local[c].product_id
       IN  IF calls[c].commit /\ p \in DOMAIN stock
           THEN /\ Holders(p) \subseteq {c}
                /\ tx' = [tx EXCEPT ![c].lock = p,
                                    ![c].stockWrite = <<local[c].new_stock>>]
           ELSE UNCHANGED tx
    /\ pc' = [pc EXCEPT ![c] = "cursor_yielded"]
    /\ UNCHANGED <<stock, price, orders, transactions, audit_logs,
                   nextOrderId, nextTxnId, pool, local, calls, faults,
                   initStock>>

\* the body raises an Exception, before or after its statement:
\* except Exception rolls back, logs and re-raises
BodyRaises(c) ==
    /\ pc[c] \in {"cursor_body", "cursor_yielded"}
    /\ faults < MaxFaults
    /\ faults' = faults + 1
    /\ RollbackTx(c)
    /\ pc' = [pc EXCEPT ![c] = "cursor_exit"]
    /\ calls' = [calls EXCEPT ![c].fault = "body"]
    /\ UNCHANGED <<price, nextOrderId, nextTxnId, pool, local, initStock>>

\* the body is left by an exception that does not derive from Exception:
\* no handler of get_cursor runs, only its finally block
BodyInterrupted(c) ==
    /\ pc[c] \in {"cursor_body", "cursor_yielded"}
    /\ faults < MaxFaults
    /\ faults' = faults + 1
    /\ pc' = [pc EXCEPT ![c] = "cursor_exit"]
    /\ calls' = [calls EXCEPT ![c].fault = "interrupt"]
    /\ UNCHANGED <<stock, price, orders, transactions, audit_logs,
                   nextOrderId, nextTxnId, pool, local, tx, initStock>>

\* the body ended without an exception: if commit: connection.commit()
CursorCommit(c) ==
    /\ pc[c] = "cursor_yielded"
    /\ IF calls[c].commit
       THEN /\ CommitTx(c)
            /\ calls' = [calls EXCEPT ![c].committed = TRUE]
       ELSE UNCHANGED <<stock, orders, transactions, audit_logs, tx, calls>>
    /\ pc' = [pc EXCEPT ![c] = "cursor_exit"]
    /\ UNCHANGED <<price, nextOrderId, nextTxnId, pool, local, faults,
                   initStock>>

\* connection.commit() raises: it stands inside the try, so the same
\* except Exception rolls back and re-raises
CommitRaises(c) ==
    /\ pc[c] = "cursor_yielded"
    /\ calls[c].commit
    /\ faults < MaxFaults
    /\ faults' = faults + 1
    /\ RollbackTx(c)
    /\ pc' = [pc EXCEPT ![c] = "cursor_exit"]
    /\ calls' = [calls EXCEPT ![c].fault = "commit"]
    /\ UNCHANGED <<price, nextOrderId, nextTxnId, pool, local, initStock>>

\* finally: cursor.close(), then the finally of get_connection: putconn,
\* which ends whatever transaction the connection still has open
CursorExit(c) ==
    /\ pc[c] = "cursor_exit"
    /\ RollbackTx(c)
    /\ Finish(c, 0, IF calls[c].fault = "none" THEN "returned" ELSE "raised",
              0, "none")
    /\ UNCHANGED <<local, price, nextOrderId, nextTxnId, faults, initStock>>

\* the uses of get_cursor tried, as <<commit, product_id, new_quantity>>:
\* stock updates of one row and of a missing row, and a query
CursorUses ==
    {<<TRUE, 1, n>> : n \in 0..MaxStock}
        \cup {<<TRUE, MissingId, 0>>, <<FALSE, 1, 0>>}

\* Uses of get_cursor on their own, each on its own worker.
NextCursor ==
    \/ \E c \in Callers, u \in CursorUses : GetCursor(c, u[1], u[2], u[3])
    \/ \E c \in Callers : CursorExecute(c)
    \/ \E c \in Callers : BodyRaises(c)
    \/ \E c \in Callers : BodyInterrupted(c)
    \/ \E c \in Callers : CursorCommit(c)
    \/ \E c \in Callers : CommitRaises(c)
    \/ \E c \in Callers : CursorExit(c)

SpecCursor == Init /\ [][NextCursor]_vars

\* db.connection_pool is a SimpleConnectionPool, which takes no lock of its
\* own, and the routes are plain functions that the server runs on worker
\* threads.  getconn therefore runs as two steps that other workers can
\* come between.  First step: the request arrives, is validated, and with
\* no idle connection the pool compares the number checked out with its
\* maximum and raises when it is reached.
PoolCheck(c, p, q) ==
    /\ pc[c] = "new"
    /\ \A d \in Callers : d < c => pc[d] # "new"
    /\ IF ~ValidQuantity(q)
       THEN /\ calls' = [calls EXCEPT ![c] = [NewCall(p, q) EXCEPT
                                  !.status = 422, !.detail = "invalid"]]
            /\ pc' = [pc EXCEPT ![c] = "done"]
            /\ UNCHANGED local
       ELSE IF pool = PoolMax
       THEN /\ calls' = [calls EXCEPT ![c] = [NewCall(p, q) EXCEPT
                                  !.status = 500, !.detail = "failed",
                                  !.fault = "pool"]]
            /\ pc' = [pc EXCEPT ![c] = "done"]
            /\ UNCHANGED local
       ELSE /\ calls' = [calls EXCEPT ![c] = NewCall(p, q)]
            /\ pc' = [pc EXCEPT ![c] = "connect"]
            /\ local' = [local EXCEPT ![c] =
                            [NoLocals EXCEPT !.product_id = p,
                                             !.quantity = q]]
    /\ UNCHANGED <<stock, price, orders, transactions, audit_logs,
                   nextOrderId, nextTxnId, pool, tx, faults, initStock>>

\* Second step of getconn: the pool opens a connection and only then
\* records it as checked out; the call opens its cursor and leaves
\* autocommit.
PoolConnect(c) ==
    /\ pc[c] = "connect"
    /\ pool' = pool + 1
    /\ pc' = [pc EXCEPT ![c] = "lock"]
    /\ UNCHANGED <<stock, price, orders, transactions, audit_logs,
                   nextOrderId, nextTxnId, local, tx, calls, faults,
                   initStock>>

\* The purchase route on a loaded server, with getconn in its two steps.
NextPool ==
    \/ \E c \in Callers, r \in Requests : PoolCheck(c, r[1], r[2])
    \/ \E c \in Callers : PoolConnect(c)
    \/ \E c \in Callers : Step(c)
    \/ \E c \in Callers : LockError(c)
    \/ \E c \in Callers : StoreError(c)
    \/ \E c \in Callers : RespondError(c)
    \/ \E c \in Callers : ConnectionLost(c)

SpecPool == InitBusy /\ [][NextPool]_vars

\* ------------------------------------------------------------ properties

Min(a, b) == IF a < b THEN a ELSE b

\* the purchase attempts made so far on product p (requests that got past
\* the validator and entered purchase_with_lock)
Attempts(p) ==
    {c \in Callers : pc[c] # "new" /\ calls[c].product_id = p
                     /\ calls[c].status # 422}

\* those of them that were answered 200
Successes(p) == {c \in Attempts(p) : calls[c].status = 200}

\* every attempt made so far on p has been answered
Settled(p) == \A c \in Attempts(p) : pc[c] = "done"

\* at least one attempt on p, and all of them ask for quantity q
SameQty(p, q) ==
    /\ Attempts(p) # {}
    /\ \A c \in Attempts(p) : calls[c].quantity = q

\* no attempt on p met an unexpected exception
NoException(p) == \A c \in Attempts(p) : calls[c].fault = "none"

RECURSIVE SumQty(_)
\* the sum of the quantities asked by the requests in S
SumQty(S) ==
    IF S = {} THEN 0
    ELSE LET c == CHOOSE x \in S : TRUE
         IN  calls[c].quantity + SumQty(S \ {c})

\* the audit entries of the purchases of product p, in commit order
Chain(p) == SelectSeq(audit_logs, LAMBDA a : a.product_name = p)

\* the request holds the lock of its row: it is between a granted
\* FOR UPDATE NOWAIT and its commit or rollback
InTransaction(c) == pc[c] \in {"check", "order", "split", "audit", "commit"}

\* C1: in every reachable state, whatever the interleaving of the calls and
\* whichever of them fail or roll back, the committed stock_quantity of every
\* product is >= 0.
C1_StockNeverNegative == \A p \in Products : stock[p] >= 0

\* C1 witness: a purchase has taken the last unit of a product while another
\* call on the same product was turned away.
C1_Witness ==
    \E p \in Products, c, d \in Callers :
        /\ c # d
        /\ initStock[p] > 0 /\ stock[p] = 0
        /\ calls[c].product_id = p /\ calls[c].committed
        /\ calls[d].product_id = p /\ calls[d].status \in {400, 409, 500}

\* C2 as stated, read for the runs in which no unexpected exception is
\* raised: once N attempts of quantity q on a product of initial stock S are
\* answered, exactly min(N, floor(S / q)) of them were answered Success.
C2_Original ==
    \A p \in Products, q \in 1..MaxQty :
        (SameQty(p, q) /\ Settled(p) /\ NoException(p))
            => Cardinality(Successes(p))
                   = Min(Cardinality(Attempts(p)), initStock[p] \div q)

\* C2 amended: among N attempts of quantity q on a product of initial stock
\* S, at most min(N, floor(S / q)) are answered Success; once all are
\* answered and none was answered LockContention (409) or InternalFailure
\* (500), exactly min(N, floor(S / q)) were.
C2_SuccessCount ==
    \A p \in Products, q \in 1..MaxQty :
        SameQty(p, q) =>
            LET att == Attempts(p)
                won == Cardinality({c \in att : calls[c].status = 200})
                cap == Min(Cardinality(att), initStock[p] \div q)
            IN  /\ won <= cap
                /\ (\A c \in att : /\ pc[c] = "done"
                                    /\ calls[c].status \notin {409, 500})
                       => won = cap

\* C2 witness: two attempts of the same quantity are answered, none with 409
\* or 500, and the stock was enough for only one of them.
C2_Witness ==
    \E p \in Products, q \in 1..MaxQty :
        /\ SameQty(p, q) /\ Settled(p)
        /\ Cardinality(Attempts(p)) = 2
        /\ initStock[p] \div q = 1
        /\ Cardinality(Successes(p)) = 1
        /\ \A c \in Attempts(p) : calls[c].status \in {200, 400}

\* C3 as stated: once every attempt on a product is answered, its committed
\* stock is the initial stock minus the quantities of the attempts that were
\* answered Success.
C3_FinalStock ==
    \A p \in Products :
        Settled(p) => stock[p] = initStock[p] - SumQty(Successes(p))

\* no attempt on p met a store error (a statement or the commit raising)
NoStoreError(p) == \A c \in Attempts(p) : calls[c].fault # "store"

\* C4 as stated, read for the runs in which the store raises no error: with
\* stock 1 and two attempts of quantity 1 on the product, once both are
\* answered exactly one was answered Success (200), the other LockContention
\* (409) or SoldOut (400), and the final stock is 0.
C4_ExactlyOneWinner ==
    \A p \in Products, c, d \in Callers :
        (/\ c # d
         /\ Attempts(p) = {c, d}
         /\ initStock[p] = 1
         /\ calls[c].quantity = 1 /\ calls[d].quantity = 1
         /\ Settled(p) /\ NoStoreError(p)
         /\ calls[c].status # 200)
            => /\ calls[d].status = 200
               /\ \/ calls[c].status = 409
                  \/ calls[c].status = 400 /\ calls[c].detail = "SOLD OUT"
               /\ stock[p] = 0

\* C5: at every instant at most one in-flight transaction holds the
\* exclusive lock of a product row.
C5_AtMostOneHolder == \A p \in Products : Cardinality(Holders(p)) <= 1

\* C5 witness: one transaction holds the row lock while another call is
\* about to ask for the lock of the same row.
C5_Witness ==
    \E c, d \in Callers :
        /\ c # d
        /\ InTransaction(c) /\ tx[c].lock = local[c].product_id
        /\ pc[d] = "lock" /\ local[d].product_id = local[c].product_id

\* C6: no two purchase transactions act on the same pre-decrement stock: the
\* stock a transaction read under the lock is the committed stock until its
\* own commit, and the (old_stock, new_stock) pairs of the committed purchases
\* of a product, in commit order, form a chain from the initial stock to the
\* current one.
C6_SerialStockChain ==
    /\ \A c \in Callers :
           InTransaction(c)
               => local[c].stock_quantity = stock[local[c].product_id]
    /\ \A p \in Products :
           LET ch == Chain(p)
           IN  /\ \A i \in 1..Len(ch) :
                      /\ ch[i].old_stock =
                             IF i = 1 THEN initStock[p] ELSE ch[i - 1].new_stock
                      /\ ch[i].new_stock < ch[i].old_stock
               /\ Len(ch) > 0 => ch[Len(ch)].new_stock = stock[p]

\* C6 witness: two purchases of one product have committed one after the other.
C6_Witness == \E p \in Products : Len(Chain(p)) = 2

\* the request is about to execute the lock statement while another open
\* transaction holds the lock of the row it names
Contended(c) ==
    /\ pc[c] = "lock"
    /\ Holders(local[c].product_id) \ {c} # {}

\* C7: a call that asks for the row lock while another transaction holds it
\* never waits for the holder: its lock statement can always be executed at
\* once, and executing it rolls the call back and answers 409 while the
\* holder is still in its transaction, untouched.
C7_NoWaitOnContention ==
    /\ [](\A c \in Callers : Contended(c) => ENABLED LockProduct(c))
    /\ [][\A c \in Callers :
              (Contended(c) /\ pc'[c] # pc[c])
                  => /\ pc'[c] = "done"
                     /\ calls'[c].status = 409
                     /\ tx'[c] = NoTx
                     /\ \A d \in Callers \ {c} :
                            tx'[d] = tx[d] /\ pc'[d] = pc[d]
                     /\ stock' = stock /\ orders' = orders
                     /\ transactions' = transactions
                     /\ audit_logs' = audit_logs]_vars

\* C7 witness: a call was answered 409 without any exception of its own
\* while the holder of the row lock is still inside its transaction.
C7_Witness ==
    \E c, d \in Callers :
        /\ c # d
        /\ pc[c] = "done" /\ calls[c].status = 409 /\ calls[c].fault = "none"
        /\ InTransaction(d) /\ tx[d].lock = calls[c].product_id

\* the stock UPDATE of the request has been issued and its commit has not
\* returned yet
WritePhase(c) == pc[c] \in {"order", "split", "audit", "commit"}

\* no committed row carries an id the request drew from the sequences
NoRowOf(c) ==
    /\ local[c].order_id # 0 =>
           /\ \A o \in orders : o.order_id # local[c].order_id
           /\ \A t \in transactions : t.order_id # local[c].order_id
           /\ \A i \in 1..Len(audit_logs) :
                  audit_logs[i].entity_id # local[c].order_id
    /\ local[c].transaction_id # 0 =>
           \A t \in transactions : t.transaction_id # local[c].transaction_id

\* C8: a failure after the stock UPDATE was issued and before the commit took
\* effect rolls the transaction back and is answered 500; that step changes no
\* table, leaves the product's stock at the value the call found, and no
\* order, payment-split or audit row of the call exists then or later.
C8_RollbackOnFailure ==
    /\ [][\A c \in Callers :
              (WritePhase(c) /\ pc'[c] = "done")
                  => /\ calls'[c].status = 500
                     /\ ~calls'[c].committed
                     /\ tx'[c] = NoTx
                     /\ stock' = stock
                     /\ stock'[local[c].product_id] = local[c].stock_quantity
                     /\ orders' = orders
                     /\ transactions' = transactions
                     /\ audit_logs' = audit_logs]_vars
    /\ [](\A c \in Callers :
              (pc[c] = "done" /\ calls[c].fault = "store")
                  => ~calls[c].committed /\ NoRowOf(c))

\* C8 witness: a call failed after its order and payment-split inserts and
\* was answered 500; the tables are empty and the stock is the initial one.
C8_Witness ==
    \E c \in Callers :
        /\ pc[c] = "done" /\ calls[c].status = 500 /\ calls[c].fault = "store"
        /\ local[c].order_id # 0 /\ local[c].transaction_id # 0
        /\ orders = {} /\ transactions = {} /\ audit_logs = <<>>
        /\ stock = initStock

\* C9: whenever a call is answered Success (200), its commit took effect: the
\* stock of its product went down by the requested quantity in that commit,
\* and its order, payment-split and audit rows are in the tables.
C9_SuccessMeansCommitted ==
    \A c \in Callers :
        calls[c].status = 200 =>
            /\ calls[c].committed
            /\ calls[c].before - calls[c].after = calls[c].quantity
            /\ calls[c].quantity > 0
            /\ \E o \in orders :
                   /\ o.order_id = local[c].order_id
                   /\ o.product_id = calls[c].product_id
                   /\ o.quantity = calls[c].quantity
            /\ \E t \in transactions :
                   /\ t.transaction_id = local[c].transaction_id
                   /\ t.order_id = local[c].order_id
            /\ \E i \in 1..Len(audit_logs) :
                   /\ audit_logs[i].entity_id = local[c].order_id
                   /\ audit_logs[i].old_stock - audit_logs[i].new_stock
                          = calls[c].quantity

\* C9 witness: a call was answered 200 and the stock of its product is below
\* the initial one.
C9_Witness ==
    \E c \in Callers :
        /\ calls[c].status = 200
        /\ stock[calls[c].product_id] < initStock[calls[c].product_id]

\* C10 as stated: a call that is answered with a failure (400, 404, 409 or
\* 500) has not committed a stock mutation, at whichever step the failure was
\* raised, the steps after connection.commit() included.
C10_FailureMeansNoCommit ==
    \A c \in Callers :
        calls[c].status \in {400, 404, 409, 500} => ~calls[c].committed

\* the persistent tables: product stock, orders, payment splits, audit entries
Tables == <<stock, orders, transactions, audit_logs>>

\* the request was answered by one of the aborted paths: NotFound (404),
\* LockContention (409), SoldOut or InsufficientStock (400)
Aborted(c) == pc[c] = "done" /\ calls[c].status \in {400, 404, 409}

\* C11: a call that ends on an aborted path (NotFound, LockContention,
\* SoldOut, InsufficientStock) changes no persistent state: none of its steps,
\* from taking the connection to the answer, changes the stock, the orders,
\* the payment-split rows or the audit entries, and afterwards no committed
\* row and no stock change is its own.
C11_AbortedLeavesNoTrace ==
    /\ [][\A c \in Callers :
              (pc[c] \in {"new", "lock", "check"} /\ pc'[c] \in {"lock", "check", "done"}
               /\ pc'[c] # pc[c])
                  => Tables' = Tables]_vars
    /\ [](\A c \in Callers :
              Aborted(c) => /\ ~calls[c].committed
                            /\ local[c].order_id = 0
                            /\ local[c].transaction_id = 0
                            /\ \A o \in orders : o.buyer_id # c
                            /\ \A t \in transactions : t.buyer_id # c
                            /\ \A i \in 1..Len(audit_logs) :
                                   audit_logs[i].user_id # c)

\* C11 witness: one call was refused the lock (409) and another was turned
\* away by the stock check (400); the tables are as they were at the start.
C11_Witness ==
    \E c, d \in Callers :
        /\ Aborted(c) /\ calls[c].status = 409
        /\ Aborted(d) /\ calls[d].status = 400
        /\ stock = initStock /\ orders = {} /\ transactions = {}
        /\ audit_logs = <<>>

\* no purchase call is in flight: every request has not arrived yet or has
\* been answered
Quiescent == \A c \in Callers : pc[c] \in {"new", "done"}

\* the requests answered Success (200)
Succeeded == {c \in Callers : calls[c].status = 200}

\* C12 as stated, read in the states where no call is in flight: the orders,
\* the payment-split rows and the purchase audit entries are as many as the
\* Success outcomes, every order has exactly one payment-split row and one
\* audit entry referencing it with the same buyer, product and amount, and
\* every successful call committed exactly one stock mutation of its quantity.
C12_OneRowOfEachPerSuccess ==
    Quiescent =>
        /\ Cardinality(orders) = Cardinality(Succeeded)
        /\ Cardinality(transactions) = Cardinality(Succeeded)
        /\ Len(audit_logs) = Cardinality(Succeeded)
        /\ \A o \in orders :
               /\ Cardinality({t \in transactions :
                                  /\ t.order_id = o.order_id
                                  /\ t.buyer_id = o.buyer_id
                                  /\ t.product_id = o.product_id
                                  /\ t.amount = o.total_price}) = 1
               /\ Cardinality({i \in 1..Len(audit_logs) :
                                  /\ audit_logs[i].entity_id = o.order_id
                                  /\ audit_logs[i].action_type = "purchase"
                                  /\ audit_logs[i].user_id = o.buyer_id
                                  /\ audit_logs[i].product_name = o.product_id
                                  /\ audit_logs[i].total_price = o.total_price})
                      = 1
        /\ \A c \in Succeeded :
               /\ calls[c].committed
               /\ calls[c].before - calls[c].after = calls[c].quantity

\* C13: a call with quantity q > 0 whose lock statement is executed without
\* error is answered by what the locked row says: no row gives 404; a row is
\* locked and read; then stock s = 0 gives 400 SOLD OUT, 0 < s < q gives 400
\* Insufficient stock reporting available = s, and s >= q issues the stock
\* write (or fails on it with 500), never a 400.  Success implies q <= s for
\* the stock s read under the lock.
C13_OutcomeFollowsLockedRow ==
    /\ [][\A c \in Callers :
              LET p == local[c].product_id
                  q == local[c].quantity
                  s == local[c].stock_quantity
              IN  /\ (/\ pc[c] = "lock" /\ pc'[c] # "lock"
                      /\ ~Contended(c) /\ calls'[c].fault = "none")
                         => IF p \in Products
                            THEN /\ pc'[c] = "check"
                                 /\ tx'[c].lock = p
                                 /\ local'[c].stock_quantity = stock[p]
                            ELSE /\ pc'[c] = "done"
                                 /\ calls'[c].status = 404
                  /\ (pc[c] = "check" /\ pc'[c] # "check")
                         => /\ q > 0
                            /\ s = stock[p]
                            /\ s = 0 =>
                                   /\ pc'[c] = "done"
                                   /\ calls'[c].status = 400
                                   /\ calls'[c].detail = "SOLD OUT"
                            /\ (0 < s /\ s < q) =>
                                   /\ pc'[c] = "done"
                                   /\ calls'[c].status = 400
                                   /\ calls'[c].detail = "Insufficient stock"
                                   /\ calls'[c].available = s
                            /\ s >= q =>
                                   \/ /\ pc'[c] = "order"
                                      /\ tx'[c].stockWrite = <<s - q>>
                                   \/ /\ pc'[c] = "done"
                                      /\ calls'[c].status = 500
                                      /\ calls'[c].fault # "none"]_vars
    /\ [](\A c \in Callers :
              calls[c].status = 200
                  => /\ calls[c].quantity <= local[c].stock_quantity
                     /\ local[c].stock_quantity = calls[c].before)

\* C13 witness: of two calls on a product with one unit, the one asking for
\* two was answered Insufficient stock with available = 1 and the one asking
\* for one was answered Success.
C13_Witness ==
    \E p \in Products, c, d \in Callers :
        /\ initStock[p] = 1
        /\ calls[c].product_id = p /\ calls[c].quantity = 2
        /\ calls[c].status = 400 /\ calls[c].detail = "Insufficient stock"
        /\ calls[c].available = 1
        /\ calls[d].product_id = p /\ calls[d].quantity = 1
        /\ calls[d].status = 200

\* C14 as stated: a call is answered LockContention (409) only if, when it
\* executed its lock statement, another in-flight transaction held the lock of
\* the row it named; a call that met any other store error, the lock
\* statement raising for another reason included, is answered 500.
C14_ConflictOnlyOnContention ==
    [][\A c \in Callers :
           (pc[c] # "done" /\ pc'[c] = "done")
               => /\ calls'[c].status = 409 => Contended(c)
                  /\ calls'[c].fault = "store" => calls'[c].status = 500]_vars

\* the requests that are inside purchase_with_lock with a connection taken
InFlight == {c \in Callers : pc[c] \notin {"new", "done"}}

\* C15 as stated: on every exit path, failures inside the handlers and the
\* finally block included, the connection a call took is put back exactly
\* once: the connections checked out are exactly those of the calls in
\* flight, and none is checked out when no call is in flight.
C15_ConnectionAlwaysReturned == pool = Cardinality(InFlight)

\* C16: for every successful purchase, in hundredths of a currency unit, the
\* commission is 5% of the total rounded to the nearest hundredth, the payout
\* is the total less the commission, and commission and payout add up to the
\* total; the split stored in the payment-split row is the one the call
\* computed.
C16_SplitAddsUp ==
    \A c \in Callers :
        calls[c].status = 200 =>
            \E t \in transactions :
                /\ t.transaction_id = local[c].transaction_id
                /\ t.amount = price[calls[c].product_id] * calls[c].quantity
                /\ 100 * t.commission_fee - CommissionPercent * t.amount
                       \in -50..50
                /\ t.artisan_payout = t.amount - t.commission_fee
                /\ t.commission_fee + t.artisan_payout = t.amount
                /\ t.commission_fee >= 0 /\ t.artisan_payout >= 0
                /\ local[c].commission_fee = t.commission_fee
                /\ local[c].artisan_payout = t.artisan_payout

\* C16 witness: a successful purchase whose 5% falls exactly between two
\* hundredths (total 0.30, commission 0.02, payout 0.28).
C16_Witness ==
    \E c \in Callers, t \in transactions :
        /\ calls[c].status = 200
        /\ t.transaction_id = local[c].transaction_id
        /\ t.amount = 30 /\ t.commission_fee = 2 /\ t.artisan_payout = 28

\* C17: a request whose quantity is 0 or negative is refused by the request
\* validation in one step, before purchase_with_lock runs: it takes no
\* connection, never reaches the lock statement, writes nothing, and no
\* committed row carries a quantity that is not positive.
C17_BadQuantityRejected ==
    /\ [][\A c \in Callers :
              (pc[c] = "new" /\ pc'[c] # "new" /\ calls'[c].quantity <= 0)
                  => /\ pc'[c] = "done"
                     /\ calls'[c].status = 422
                     /\ pool' = pool
                     /\ tx' = tx
                     /\ Tables' = Tables
                     /\ nextOrderId' = nextOrderId
                     /\ nextTxnId' = nextTxnId]_vars
    /\ [](/\ \A c \in Callers :
                 (pc[c] # "new" /\ calls[c].quantity <= 0)
                     => /\ pc[c] = "done"
                        /\ calls[c].status = 422
                        /\ ~calls[c].committed
                        /\ local[c] = NoLocals
           /\ \A o \in orders : o.quantity > 0
           /\ \A p \in Products : stock[p] <= initStock[p])

\* C17 witness: a request for quantity 0 and one for quantity -1 were both
\* refused and nothing was taken or written.
C17_Witness ==
    \E c, d \in Callers :
        /\ calls[c].quantity = 0 /\ calls[c].status = 422
        /\ calls[d].quantity = -1 /\ calls[d].status = 422
        /\ pool = 0 /\ stock = initStock /\ orders = {}

\* the place of attempt c among the attempts on product p, in arrival order
Rank(p, c) == Cardinality({d \in Attempts(p) : d <= c})

\* C18 as stated, on calls that do not overlap and for the runs in which the
\* store raises no error: single-unit purchases of a product with stock k
\* are never answered LockContention; the first k are answered Success in
\* order with remaining_stock k-1, ..., 0, each with an order and a
\* payment-split row of its own; every later one is answered SoldOut; after
\* k or more of them the stock is 0.
C18_SequentialPurchases ==
    \A p \in Products :
        LET att == Attempts(p)
            k == initStock[p]
            n == Min(Cardinality(att), k)
        IN  (\A c \in att : /\ pc[c] = "done"
                             /\ calls[c].quantity = 1
                             /\ calls[c].fault \notin {"store", "connection"})
                => /\ \A c \in att :
                          IF Rank(p, c) <= k
                          THEN /\ calls[c].status = 200
                               /\ local[c].new_stock = k - Rank(p, c)
                          ELSE /\ calls[c].status = 400
                               /\ calls[c].detail = "SOLD OUT"
                   /\ stock[p] = k - n
                   /\ Cardinality({o \in orders : o.product_id = p}) = n
                   /\ Cardinality({t \in transactions : t.product_id = p}) = n

\* the answer a purchase of q units of product p gets when it runs alone on
\* a product whose stock is s
AloneStatus(p, s, q) ==
    IF p \notin Products THEN 404
    ELSE IF s < q THEN 400
    ELSE 200

\* C19 as stated: a purchase that is the only one on its product row, and
\* that meets no exception of its own, is answered as if it ran alone,
\* whatever purchases are in flight on other rows and however many callers
\* share the connection pool.
C19_RowsIndependent ==
    \A c \in Callers :
        LET p == calls[c].product_id
        IN  (/\ pc[c] = "done"
             /\ calls[c].status # 422
             /\ Attempts(p) = {c}
             /\ calls[c].fault \notin {"store", "connection", "post-commit"})
                => calls[c].status =
                       AloneStatus(p, IF p \in Products THEN initStock[p] ELSE 0,
                                   calls[c].quantity)

\* C20 as stated: the stock of an existing product changes only in the
\* commit of a purchase transaction that holds the lock of its row; no other
\* operation of the repository changes it.
C20_StockWrittenOnlyByPurchase ==
    [][\A p \in Products :
           stock'[p] # stock[p]
               => \E c \in Callers :
                      /\ pc[c] = "commit" /\ pc'[c] = "respond"
                      /\ tx[c].lock = p
                      /\ stock'[p] = stock[p] - local[c].quantity]_vars

\* the answers of purchase_with_lock: Success, NotFound, LockContention,
\* SoldOut or InsufficientStock, InternalFailure
Outcomes == {200, 404, 409, 400, 500}

C22_InterruptionRollsBack ==
    /\ [][\A c \in Callers :
              (InTransaction(c) /\ pc'[c] = "done")
                  => /\ tx'[c] = NoTx
                     /\ Tables' = Tables]_vars
    /\ [](\A c \in Callers : pc[c] = "done" => tx[c] = NoTx)

\* the gross amounts a purchase can reach, in hundredths
Amounts == 0..(MaxPrice * MaxQty)

\* C23: create_transaction and purchase_with_lock split an amount the same
\* way: the same rate, and for every gross amount the same commission_fee
\* and, from it, the same artisan_payout; the split stored by a purchase is
\* the one create_transaction computes for that amount.
C23_SameSplit ==
    /\ CreateTransactionPercent = CommissionPercent
    /\ \A a \in Amounts :
           /\ CreateTransactionFee(a) = CommissionFee(a)
           /\ \A fee \in CommissionFee(a) :
                  CreateTransactionPayout(a, fee) = ArtisanPayout(a, fee)
    /\ \A t \in transactions :
           /\ t.commission_fee \in CreateTransactionFee(t.amount)
           /\ t.artisan_payout
                  = CreateTransactionPayout(t.amount, t.commission_fee)

\* C23 witness: a purchase of 1.00 is committed with commission 0.05 and
\* payout 0.95.
C23_Witness ==
    \E t \in transactions :
        t.amount = 100 /\ t.commission_fee = 5 /\ t.artisan_payout = 95

\* the statements of a purchase, in the order of the source
StepOrder == <<"lock", "check", "order", "split", "audit", "commit", "respond">>

\* the place of statement `at` in StepOrder (0 when it is not one)
Place(at) ==
    IF \E i \in 1..Len(StepOrder) : StepOrder[i] = at
    THEN CHOOSE i \in 1..Len(StepOrder) : StepOrder[i] = at
    ELSE 0

\* C24: a call moves through lock and read, stock check and stock UPDATE,
\* order INSERT, payment-split INSERT, audit INSERT, commit, one after the
\* other or leaves early; it holds the lock of its row from the granted lock
\* statement until its commit or rollback and at no other time; each write
\* is pending exactly after its statement, so only under the lock.
C24_StepsInOrderUnderLock ==
    /\ [][\A c \in Callers :
              pc'[c] # pc[c]
                  => \/ pc'[c] = "done"
                     \/ pc[c] = "new" /\ pc'[c] = "lock"
                     \/ /\ Place(pc[c]) > 0
                        /\ Place(pc'[c]) = Place(pc[c]) + 1]_vars
    /\ [](\A c \in Callers :
              /\ (tx[c].lock # NoProduct) <=> InTransaction(c)
              /\ InTransaction(c) => tx[c].lock = local[c].product_id
              /\ (tx[c].stockWrite # <<>>)
                     <=> pc[c] \in {"order", "split", "audit", "commit"}
              /\ (tx[c].orders # {}) <=> pc[c] \in {"split", "audit", "commit"}
              /\ (tx[c].transactions # {}) <=> pc[c] \in {"audit", "commit"}
              /\ (tx[c].audit_logs # <<>>) <=> pc[c] = "commit")

\* C24 witness: a call is about to commit, holding the lock with its four
\* writes pending, while another call is in flight.
C24_Witness ==
    \E c, d \in Callers :
        /\ c # d
        /\ pc[c] = "commit" /\ tx[c].lock = local[c].product_id
        /\ tx[c].stockWrite # <<>> /\ Cardinality(tx[c].orders) = 1
        /\ Cardinality(tx[c].transactions) = 1 /\ Len(tx[c].audit_logs) = 1
        /\ pc[d] \notin {"new", "done"}

\* C25: for every call answered Success, the total_price of the response is
\* the unit price read under the lock times the requested quantity and is
\* the total_price of its committed order and the amount of its committed
\* payment-split row; the remaining_stock of the response is the stock read
\* under the lock minus the quantity and is the committed stock of the
\* product right after the call's commit.
C25_ResponseMatchesCommit ==
    \A c \in Callers :
        calls[c].status = 200 =>
            LET p == calls[c].product_id
                q == calls[c].quantity
            IN  /\ local[c].price = price[p]
                /\ local[c].total_price = local[c].price * q
                /\ \E o \in orders :
                       /\ o.order_id = local[c].order_id
                       /\ o.quantity = q
                       /\ o.total_price = local[c].total_price
                /\ \E t \in transactions :
                       /\ t.order_id = local[c].order_id
                       /\ t.amount = local[c].total_price
                /\ local[c].new_stock = local[c].stock_quantity - q
                /\ local[c].new_stock = calls[c].after
                /\ local[c].stock_quantity = calls[c].before

\* C25 witness: a call for two units was answered Success with
\* remaining_stock 0 and a later call on the product was turned away.
C25_Witness ==
    \E c, d \in Callers :
        /\ c # d
        /\ calls[c].status = 200 /\ calls[c].quantity = 2
        /\ local[c].new_stock = 0
        /\ calls[d].status = 400
        /\ calls[c].product_id = calls[d].product_id

C27_EveryActionAudited ==
    /\ \A p \in DOMAIN stock \ Products :
           \E i \in 1..Len(audit_logs) :
               /\ audit_logs[i].action_type = "product_created"
               /\ audit_logs[i].entity_type = "product"
               /\ audit_logs[i].entity_id = p
    /\ \A o \in orders :
           /\ \E i \in 1..Len(audit_logs) :
                  /\ audit_logs[i].action_type = "purchase"
                  /\ audit_logs[i].entity_type = "order"
                  /\ audit_logs[i].entity_id = o.order_id
           /\ o.status # DefaultStatus =>
                  \E i \in 1..Len(audit_logs) :
                      /\ audit_logs[i].action_type = "status_update"
                      /\ audit_logs[i].entity_type = "order"
                      /\ audit_logs[i].entity_id = o.order_id
                      /\ audit_logs[i].new_status = o.status

C29_NoLockOutlivesCall ==
    [][\A c \in Callers :
          /\ (pc[c] # "done" /\ pc'[c] = "done" /\ pool' < pool)
                 => tx'[c] = NoTx
          /\ (calls[c].status # 409 /\ calls'[c].status = 409
                                    /\ calls'[c].fault = "none")
                 => \A h \in Holders(local[c].product_id) \ {c} :
                        pc[h] # "done"]_vars

\* C30: never more than PoolMax connections are checked out at once; and a
\* purchase that finds the pool exhausted is answered 500 in the same step,
\* with no lock attempted, no table or transaction touched and the number
\* of checked-out connections unchanged.
C30_PoolBounded ==
    /\ [](pool <= PoolMax)
    /\ [][\A c \in Callers :
             (calls[c].fault # "pool" /\ calls'[c].fault = "pool")
                 => /\ pc[c] = "new" /\ pc'[c] = "done"
                    /\ calls'[c].status = 500
                    /\ pool' = pool
                    /\ tx' = tx
                    /\ Tables' = Tables]_vars

====
